---- MODULE Spec2Model ----
(***************************************************************************)
(* EXOSIMS Prototypes/TimeKeeping.py: the mission time keeper.             *)
(*                                                                         *)
(* Time quantities are integers counted in ticks of 1/40 day, a unit in    *)
(* which one day, a tenth of a day and a tenth of a Julian year (36.525    *)
(* days) are whole numbers.  An absolute time (astropy Time, MJD) is the   *)
(* number of ticks since MJD 0.  The floats missionLife and extendedLife   *)
(* are given in tenths of a year; the float missionPortion is the exact    *)
(* rational <<numerator, denominator>>.  Arithmetic is exact: the rounding *)
(* of IEEE doubles is not modelled.                                        *)
(***************************************************************************)
EXTENDS Integers, Sequences, FiniteSets

VARIABLES
    self,     \* the attributes of the TimeKeeping instance (a record)
    pre,      \* the attributes as they were when the last method was called
    op,       \* the method called last
    arg,      \* its argument (0 when it takes none)
    ret,      \* its return value (None when it returned nothing or raised)
    raised,   \* the exception it raised, "" when it returned
    log       \* the messages it handed to Logger.info, in order

vars == <<self, pre, op, arg, ret, raised, log>>

----------------------------------------------------------------------------
(* Units *)

\* astropy.units.day, in ticks
day == 40

\* astropy.units.year (Julian year, 365.25 day), in ticks
year == 14610

\* float(x) * u.year for x given in tenths of a year
Years(tenths) == (tenths * year) \div 10

\* Python's None
None == "None"

----------------------------------------------------------------------------
(* Bounds of the model *)

\* allocations and advances are explored while the times stay within MaxTime
MaxTime == 4000

\* missionLife ranges over -1 .. MaxLife tenths of a year
MaxLife == 1

\* extendedLife ranges over -1 .. MaxExtended tenths of a year
MaxExtended == 1

\* constructor arguments
StartValues == {0, 60634}
LifeValues == -1 .. MaxLife
ExtendedValues == -1 .. MaxExtended
PortionValues == {<<-1, 2>>, <<0, 1>>, <<1, 6>>, <<1, 2>>, <<1, 1>>, <<3, 2>>}

\* requested widths: negative, zero, two that fit in one window together, exactly
\* the window, just over the window, well over the window
DtValues == {-1 * day, 0, 4 * day, 10 * day, 14 * day, 14 * day + day \div 10,
             20 * day}

----------------------------------------------------------------------------
(* Rational helpers for missionPortion = <<n, d>>, d > 0 *)

PortionGtZero(p) == p[1] > 0
\* variant: the upper end of the interval left out
PortionLeOne_strict(p) == p[1] < p[2]

PortionLeOne(p) == p[1] <= p[2]

\* variant: (1.0 - p) * q, the division by p left out
OtherObservations_undivided(p, q) == ((p[2] - p[1]) * q) \div p[2]

\* ((1.0 - p)/p) * q for a quantity q, exact
OtherObservations(p, q) == ((p[2] - p[1]) * q) \div p[1]

----------------------------------------------------------------------------
(* TimeKeeping.__init__ *)

\* the instance when an assertion of __init__ failed: no attribute was set
NoAttributes == [a \in {} |-> 0]

__init__(missionStart, missionLife, extendedLife, missionPortion) ==
    IF ~(missionLife >= 0) \/ ~(extendedLife >= 0)
       \/ ~(PortionGtZero(missionPortion) /\ PortionLeOne(missionPortion))
    THEN [raised |-> "AssertionError", self |-> NoAttributes]
    ELSE [raised |-> "",
          self |->
            [missionStart      |-> missionStart * day,
             missionLife       |-> Years(missionLife),
             extendedLife      |-> Years(extendedLife),
             missionPortion    |-> missionPortion,
             duration          |-> 14 * day,
             nexttimeAvail     |-> 0 * day,
             currentTimeNorm   |-> 0 * day,
             currentTimeAbs    |-> missionStart * day,
             missionFinishAbs  |-> missionStart * day + Years(missionLife)
                                     + Years(extendedLife),
             missionFinishNorm |-> Years(missionLife) + Years(extendedLife)]]

----------------------------------------------------------------------------
(* TimeKeeping.allocate_time *)

\* "%.2f" of t.to('day').value, in hundredths of a day
Fmt2(t) == (t * 100) \div day

\* variant: the message carries the provisional time, not the time after the call
Message_provisional(s, dt, description) ==
    [time |-> Fmt2(s.currentTimeNorm + dt), alloc |-> Fmt2(dt),
     description |-> description]

\* the message handed to Logger.info (the caller's location is left out)
Message(s, dt, description) ==
    [time |-> Fmt2(s.currentTimeNorm), alloc |-> Fmt2(dt),
     description |-> description]

\* variant: a request of exactly the window length counted as too long
TooLong_ge(s, dt) == dt >= s.duration

\* dt > self.duration
TooLong(s, dt) == dt > s.duration

\* dt < 0
Negative(s, dt) == dt < 0

\* variant: a request ending exactly on the window's end moves to the next window
NeedsWindow_ge(s, dt) ==
    LET provisional_time == s.currentTimeNorm + dt IN
    provisional_time >= s.nexttimeAvail + s.duration

\* variant: a window that has been allocated from takes no second request
NeedsWindow_used(s, dt) ==
    LET provisional_time == s.currentTimeNorm + dt IN
    \/ provisional_time > s.nexttimeAvail + s.duration
    \/ (dt > 0 /\ s.currentTimeNorm > s.nexttimeAvail)

\* provisional_time > self.nexttimeAvail + self.duration
NeedsWindow(s, dt) ==
    LET provisional_time == s.currentTimeNorm + dt IN
    provisional_time > s.nexttimeAvail + s.duration

\* variant: the provisional time assigned before the request is checked
Rejected_assigned(s, dt, description) ==
    LET s1 == [s EXCEPT !.currentTimeNorm = s.currentTimeNorm + dt] IN
    [self |-> s1, success |-> FALSE, window_advance |-> FALSE,
     message |-> Message(s1, dt, description)]

\* success = False: nothing is assigned to self
Rejected(s, dt, description) ==
    [self |-> s, success |-> FALSE, window_advance |-> FALSE,
     message |-> Message(s, dt, description)]

\* variant: the current time set from the window start read before it advanced
AdvanceWindow_stale(s, dt) ==
    LET s1 == [s EXCEPT !.nexttimeAvail =
                   s.nexttimeAvail
                     + (s.duration + OtherObservations(s.missionPortion, s.duration))]
        s2 == [s1 EXCEPT !.currentTimeNorm = s.nexttimeAvail + dt]
        s3 == [s2 EXCEPT !.currentTimeAbs = s2.missionStart + s2.currentTimeNorm]
    IN  [self |-> s3, success |-> TRUE, window_advance |-> TRUE,
         message |-> Message(s3, dt, "+window")]

\* variant: the current time set to the provisional time, the window advanced
AdvanceWindow_provisional(s, dt) ==
    LET s1 == [s EXCEPT !.nexttimeAvail =
                   s.nexttimeAvail
                     + (s.duration + OtherObservations(s.missionPortion, s.duration))]
        s2 == [s1 EXCEPT !.currentTimeNorm = s.currentTimeNorm + dt]
        s3 == [s2 EXCEPT !.currentTimeAbs = s2.missionStart + s2.currentTimeNorm]
    IN  [self |-> s3, success |-> TRUE, window_advance |-> TRUE,
         message |-> Message(s3, dt, "+window")]

\* variant: the absolute time advanced by dt, as on the other branch
AdvanceWindow_absdt(s, dt) ==
    LET s1 == [s EXCEPT !.nexttimeAvail =
                   s.nexttimeAvail
                     + (s.duration + OtherObservations(s.missionPortion, s.duration))]
        s2 == [s1 EXCEPT !.currentTimeNorm = s1.nexttimeAvail + dt]
        s3 == [s2 EXCEPT !.currentTimeAbs = s2.currentTimeAbs + dt]
    IN  [self |-> s3, success |-> TRUE, window_advance |-> TRUE,
         message |-> Message(s3, dt, "+window")]

\* advance to the next observation window
AdvanceWindow(s, dt) ==
    LET s1 == [s EXCEPT !.nexttimeAvail =
                   s.nexttimeAvail
                     + (s.duration + OtherObservations(s.missionPortion, s.duration))]
        s2 == [s1 EXCEPT !.currentTimeNorm = s1.nexttimeAvail + dt]
        s3 == [s2 EXCEPT !.currentTimeAbs = s2.missionStart + s2.currentTimeNorm]
    IN  [self |-> s3, success |-> TRUE, window_advance |-> TRUE,
         message |-> Message(s3, dt, "+window")]

\* variant: the advanced times computed and not assigned
AdvanceBy_unassigned(s, dt) ==
    [self |-> s, success |-> TRUE, window_advance |-> FALSE,
     message |-> Message(s, dt, "ok")]

\* simply advance by dt
AdvanceBy(s, dt) ==
    LET provisional_time == s.currentTimeNorm + dt
        s1 == [s EXCEPT !.currentTimeNorm = provisional_time]
        s2 == [s1 EXCEPT !.currentTimeAbs = s1.currentTimeAbs + dt]
    IN  [self |-> s2, success |-> TRUE, window_advance |-> FALSE,
         message |-> Message(s2, dt, "ok")]

allocate_time(s, dt) ==
    IF TooLong(s, dt) THEN Rejected(s, dt, "!too long")
    ELSE IF Negative(s, dt) THEN Rejected(s, dt, "!negative allocation")
    ELSE IF NeedsWindow(s, dt) THEN AdvanceWindow(s, dt)
    ELSE AdvanceBy(s, dt)

----------------------------------------------------------------------------
(* TimeKeeping.mission_is_over *)

\* variant: the mission over as soon as the finish time is reached
mission_is_over_ge(s) == s.currentTimeNorm >= s.missionFinishNorm

mission_is_over(s) == s.currentTimeNorm > s.missionFinishNorm

----------------------------------------------------------------------------
(* TimeKeeping.update_times (deprecated) *)

\* variant: the times advanced before dt is checked
update_times_late(s, dt) ==
    LET s1 == [s EXCEPT !.currentTimeNorm = s.currentTimeNorm + dt,
                        !.currentTimeAbs = s.currentTimeAbs + dt]
    IN  IF dt < 0
        THEN [raised |-> "ValueError", self |-> s1]
        ELSE [raised |-> "", self |-> s1]

update_times(s, dt) ==
    IF dt < 0
    THEN [raised |-> "ValueError", self |-> s]
    ELSE [raised |-> "",
          self |-> [s EXCEPT !.currentTimeNorm = s.currentTimeNorm + dt,
                             !.currentTimeAbs = s.currentTimeAbs + dt]]

----------------------------------------------------------------------------
(* TimeKeeping.duty_cycle (deprecated) *)

\* variant: the window moved by its own length only
duty_cycle_window(s, currenttime) ==
    IF currenttime > s.nexttimeAvail + s.duration
    THEN LET nta == s.nexttimeAvail + s.duration
         IN  [self |-> [s EXCEPT !.nexttimeAvail = nta], nexttime |-> nta]
    ELSE [self |-> s, nexttime |-> currenttime]

\* variant: a time exactly on the window's end moves to the next window
duty_cycle_ge(s, currenttime) ==
    IF currenttime >= s.nexttimeAvail + s.duration
    THEN LET nta == s.nexttimeAvail + s.duration
                      + OtherObservations(s.missionPortion, s.duration)
         IN  [self |-> [s EXCEPT !.nexttimeAvail = nta], nexttime |-> nta]
    ELSE [self |-> s, nexttime |-> currenttime]

duty_cycle(s, currenttime) ==
    IF currenttime > s.nexttimeAvail + s.duration
    THEN LET nta == s.nexttimeAvail + s.duration
                      + OtherObservations(s.missionPortion, s.duration)
         IN  [self |-> [s EXCEPT !.nexttimeAvail = nta], nexttime |-> nta]
    ELSE [self |-> s, nexttime |-> currenttime]

----------------------------------------------------------------------------
(* The state machine: one instance, constructed once, then called *)

Constructed == ~(op = "__init__" /\ raised = "AssertionError")

WithinBounds(s) == s.currentTimeNorm <= MaxTime /\ s.nexttimeAvail <= MaxTime

Init ==
    \E missionStart \in StartValues, missionLife \in LifeValues,
       extendedLife \in ExtendedValues, missionPortion \in PortionValues :
        LET r == __init__(missionStart, missionLife, extendedLife, missionPortion) IN
        /\ self = r.self
        /\ pre = r.self
        /\ op = "__init__"
        /\ arg = <<missionStart, missionLife, extendedLife, missionPortion>>
        /\ ret = None
        /\ raised = r.raised
        /\ log = <<>>

\* one call self.allocate_time(dt)
AllocateCall(dt) ==
    LET r == allocate_time(self, dt) IN
    /\ self' = r.self
    /\ pre' = self
    /\ op' = "allocate_time"
    /\ arg' = dt
    /\ ret' = r.success
    /\ raised' = ""
    /\ log' = <<r.message>>

AllocateTime ==
    /\ Constructed
    /\ \E dt \in DtValues :
        /\ WithinBounds(allocate_time(self, dt).self)
        /\ AllocateCall(dt)

MissionIsOver ==
    /\ Constructed
    /\ self' = self
    /\ pre' = self
    /\ op' = "mission_is_over"
    /\ arg' = 0
    /\ ret' = mission_is_over(self)
    /\ raised' = ""
    /\ log' = <<>>

UpdateTimes ==
    /\ Constructed
    /\ \E dt \in DtValues :
        LET r == update_times(self, dt) IN
        /\ WithinBounds(r.self)
        /\ self' = r.self
        /\ pre' = self
        /\ op' = "update_times"
        /\ arg' = dt
        /\ ret' = None
        /\ raised' = r.raised
        /\ log' = <<>>

\* the times a caller hands to duty_cycle: the current time, or the end of a
\* block it is about to request
CurrentTimes(s) == {s.currentTimeNorm + dt : dt \in {d \in DtValues : d >= 0}}

DutyCycle ==
    /\ Constructed
    /\ \E currenttime \in CurrentTimes(self) :
        LET r == duty_cycle(self, currenttime) IN
        /\ WithinBounds(r.self)
        /\ self' = r.self
        /\ pre' = self
        /\ op' = "duty_cycle"
        /\ arg' = currenttime
        /\ ret' = r.nexttime
        /\ raised' = ""
        /\ log' = <<>>

Next == AllocateTime \/ MissionIsOver \/ UpdateTimes \/ DutyCycle

Spec == Init /\ [][Next]_vars

\* the instance driven through allocate_time alone
NextAllocate == AllocateTime

SpecAllocate == Init /\ [][NextAllocate]_vars

\* the scheduling loop: while the mission is not over it requests the next
\* observation block, of positive width or (making no demand) of width 0
MissionOver == Constructed /\ mission_is_over(self)

ObservePositive ==
    /\ Constructed
    /\ ~mission_is_over(self)
    /\ \E dt \in {d \in DtValues : 0 < d /\ d <= self.duration} : AllocateCall(dt)

ObserveZero ==
    /\ Constructed
    /\ ~mission_is_over(self)
    /\ AllocateCall(0)

NextMission == ObservePositive \/ ObserveZero

\* the loop keeps issuing requests of positive width
SpecMission == Init /\ [][NextMission]_vars /\ WF_vars(ObservePositive)

----------------------------------------------------------------------------
(* Properties *)

\* the last call was allocate_time
Allocated == op = "allocate_time"

\* the last call was a method of a constructed instance
Called == op # "__init__"

\* the request of the last allocate_time call had a legal width
LegalWidth == 0 <= arg /\ arg <= pre.duration

\* the request of the last allocate_time call overran the window it was made in
Overran == pre.currentTimeNorm + arg > pre.nexttimeAvail + pre.duration

\* C1: rejection purity. Whenever allocate_time returns False, currentTimeNorm,
\* currentTimeAbs and nexttimeAvail have the values they had before the call.
C1_RejectionPurity ==
    (Allocated /\ ret = FALSE) =>
        /\ self.currentTimeNorm = pre.currentTimeNorm
        /\ self.currentTimeAbs = pre.currentTimeAbs
        /\ self.nexttimeAvail = pre.nexttimeAvail

\* a request longer than the window was rejected after time had been allocated
\* and a window advanced
C1_Witness ==
    /\ Allocated /\ ret = FALSE /\ arg > self.duration
    /\ self.currentTimeNorm > self.nexttimeAvail /\ self.nexttimeAvail > 0

\* C2: monotonicity under allocation. On an instance driven by allocate_time
\* calls alone, currentTimeNorm after each call, accepted or rejected, is at
\* least its value before the call.
C2_Monotonic ==
    Allocated => self.currentTimeNorm >= pre.currentTimeNorm

\* an accepted request moved to the next window from a time past the start of
\* the window it was made in
C2_Witness ==
    /\ Allocated /\ ret = TRUE /\ self.nexttimeAvail > pre.nexttimeAvail
    /\ pre.currentTimeNorm > pre.nexttimeAvail + arg

\* C3: under any interleaving of allocate_time and update_times calls (and the
\* other methods), no call leaves currentTimeNorm, currentTimeAbs or
\* nexttimeAvail smaller than it found it.
C3_NeverDecreased ==
    Called =>
        /\ self.currentTimeNorm >= pre.currentTimeNorm
        /\ self.currentTimeAbs >= pre.currentTimeAbs
        /\ self.nexttimeAvail >= pre.nexttimeAvail

\* C4: no un-exhaustion. If mission_is_over was true when a method was called it
\* is true when the method returns, and it is false whenever currentTimeNorm <=
\* missionFinishNorm.
C4_NoUnExhaustion ==
    Called =>
        /\ mission_is_over(pre) => mission_is_over(self)
        /\ self.currentTimeNorm <= self.missionFinishNorm => ~mission_is_over(self)

\* C5: acceptance depends only on the width of the request. allocate_time never
\* raises, and returns True exactly when 0 <= dt <= duration, also when the
\* mission is already over or the call takes the time past missionFinishNorm.
C5_AcceptanceByWidth ==
    Allocated =>
        /\ raised = ""
        /\ ret = (0 <= arg /\ arg <= self.duration)

\* a request was accepted when the mission was already over
C5_Witness ==
    Allocated /\ ret = TRUE /\ arg > 0 /\ mission_is_over(pre)

\* C6: rollover arithmetic. A request of legal width that overruns the window
\* returns True, adds duration + ((1 - missionPortion)/missionPortion) * duration
\* to nexttimeAvail, sets currentTimeNorm to the new nexttimeAvail + dt and
\* currentTimeAbs to missionStart + currentTimeNorm. With missionPortion = 1/6,
\* allocate_time(10 d) twice from the initial state ends with nexttimeAvail = 84 d
\* and currentTimeNorm = 94 d.
C6_Rollover ==
    (Allocated /\ LegalWidth /\ Overran) =>
        /\ ret = TRUE
        /\ pre.missionPortion[1] * (self.nexttimeAvail - pre.nexttimeAvail)
             = pre.missionPortion[1] * pre.duration
                 + (pre.missionPortion[2] - pre.missionPortion[1]) * pre.duration
        /\ self.currentTimeNorm = self.nexttimeAvail + arg
        /\ self.currentTimeAbs = self.missionStart + self.currentTimeNorm
        /\ (/\ pre.missionPortion = <<1, 6>> /\ pre.nexttimeAvail = 0
            /\ pre.currentTimeNorm = 10 * day /\ arg = 10 * day)
           => (self.nexttimeAvail = 84 * day /\ self.currentTimeNorm = 94 * day)

\* the second allocate_time(10 d) of an instance with missionPortion = 1/6
C6_Witness ==
    /\ Allocated /\ arg = 10 * day /\ self.missionPortion = <<1, 6>>
    /\ pre.nexttimeAvail = 0 /\ pre.currentTimeNorm = 10 * day
    /\ self.nexttimeAvail > 0

\* C7: the window-fit path. A request of legal width that ends at or before the
\* end of the window returns True, adds exactly dt to currentTimeNorm and to
\* currentTimeAbs and leaves nexttimeAvail alone; a request longer than duration
\* returns False wherever the window is.
C7_WindowFit ==
    /\ (Allocated /\ LegalWidth /\ ~Overran) =>
        /\ ret = TRUE
        /\ self.currentTimeNorm = pre.currentTimeNorm + arg
        /\ self.currentTimeAbs = pre.currentTimeAbs + arg
        /\ self.nexttimeAvail = pre.nexttimeAvail
    /\ (Allocated /\ arg > pre.duration) => ret = FALSE

\* a request of the whole window made at the start of a later window
C7_Witness ==
    /\ Allocated /\ arg = pre.duration /\ ret = TRUE
    /\ pre.currentTimeNorm = pre.nexttimeAvail /\ pre.nexttimeAvail > 0
    /\ self.currentTimeNorm = pre.nexttimeAvail + pre.duration

\* C8: clock synchronisation. In every state of a constructed instance
\* currentTimeAbs = missionStart + currentTimeNorm.
C8_ClockSync ==
    Constructed => self.currentTimeAbs = self.missionStart + self.currentTimeNorm

\* a window advance that followed an update_times which had moved both clocks
C8_Witness ==
    /\ Allocated /\ self.nexttimeAvail > pre.nexttimeAvail
    /\ pre.currentTimeNorm > pre.nexttimeAvail + pre.duration
    /\ self.missionStart > 0

\* C9: mission_is_over returns True if and only if currentTimeNorm >
\* missionFinishNorm (False when they are equal) and assigns nothing.
C9_MissionIsOver ==
    op = "mission_is_over" =>
        /\ ret = (self.currentTimeNorm > self.missionFinishNorm)
        /\ self = pre

\* mission_is_over was asked when the current time was exactly the finish time
C9_Witness ==
    /\ op = "mission_is_over" /\ ret = FALSE
    /\ self.currentTimeNorm = self.missionFinishNorm

\* mission_is_over was asked after the finish time of a mission with a lifetime
C9_WitnessOver ==
    /\ op = "mission_is_over" /\ ret = TRUE
    /\ self.missionFinishNorm > 0

\* C10: construction. __init__ fails when missionLife < 0, extendedLife < 0 or
\* missionPortion is outside (0, 1]; otherwise nexttimeAvail = 0,
\* currentTimeNorm = 0, currentTimeAbs = missionStart, duration = 14 d,
\* missionFinishNorm = missionLife + extendedLife and missionFinishAbs =
\* missionStart + missionLife + extendedLife.
C10_Construction ==
    op = "__init__" =>
        IF \/ arg[2] < 0 \/ arg[3] < 0
           \/ arg[4][1] <= 0 \/ arg[4][1] > arg[4][2]
        THEN raised = "AssertionError"
        ELSE /\ raised = ""
             /\ self.nexttimeAvail = 0
             /\ self.currentTimeNorm = 0
             /\ self.missionStart = arg[1] * day
             /\ self.currentTimeAbs = self.missionStart
             /\ self.duration = 14 * day
             /\ 10 * self.missionLife = arg[2] * year
             /\ 10 * self.extendedLife = arg[3] * year
             /\ self.missionFinishNorm = self.missionLife + self.extendedLife
             /\ self.missionFinishAbs
                  = self.missionStart + self.missionLife + self.extendedLife

\* an instance constructed with missionPortion = 1 and lifetimes that are not 0
C10_Witness ==
    /\ op = "__init__" /\ raised = "" /\ arg[4] = <<1, 1>>
    /\ arg[2] > 0 /\ arg[3] > 0 /\ self.missionFinishNorm > 0

\* construction refused for missionPortion = 0
C10_WitnessRefused ==
    op = "__init__" /\ raised = "AssertionError" /\ arg[4] = <<0, 1>>

\* C11: update_times. With dt < 0 it raises ValueError and leaves every
\* attribute as it was; with dt >= 0 it adds exactly dt to currentTimeNorm and
\* to currentTimeAbs, however large dt is, and leaves nexttimeAvail (and every
\* other attribute) alone.
C11_UpdateTimes ==
    op = "update_times" =>
        IF arg < 0
        THEN raised = "ValueError" /\ self = pre
        ELSE /\ raised = ""
             /\ self.currentTimeNorm = pre.currentTimeNorm + arg
             /\ self.currentTimeAbs = pre.currentTimeAbs + arg
             /\ self.nexttimeAvail = pre.nexttimeAvail
             /\ self = [pre EXCEPT !.currentTimeNorm = self.currentTimeNorm,
                                   !.currentTimeAbs = self.currentTimeAbs]

\* an advance longer than the window, ending past the end of the window
C11_Witness ==
    /\ op = "update_times" /\ raised = "" /\ arg > pre.duration
    /\ self.currentTimeNorm > self.nexttimeAvail + self.duration
    /\ pre.currentTimeNorm > 0

\* a negative advance refused after time had passed
C11_WitnessRaised ==
    op = "update_times" /\ raised = "ValueError" /\ self.currentTimeNorm > 0

\* C12: duty_cycle. With currenttime > nexttimeAvail + duration it adds
\* duration + ((1 - missionPortion)/missionPortion) * duration to nexttimeAvail
\* and returns the new nexttimeAvail; otherwise (equality included) it returns
\* currenttime and assigns nothing. Either way currentTimeNorm and
\* currentTimeAbs are unchanged.
C12_DutyCycle ==
    op = "duty_cycle" =>
        /\ self.currentTimeNorm = pre.currentTimeNorm
        /\ self.currentTimeAbs = pre.currentTimeAbs
        /\ IF arg > pre.nexttimeAvail + pre.duration
           THEN /\ pre.missionPortion[1] * (self.nexttimeAvail - pre.nexttimeAvail)
                     = pre.missionPortion[1] * pre.duration
                         + (pre.missionPortion[2] - pre.missionPortion[1]) * pre.duration
                /\ ret = self.nexttimeAvail
                /\ self = [pre EXCEPT !.nexttimeAvail = self.nexttimeAvail]
           ELSE ret = arg /\ self = pre

\* duty_cycle asked about a time exactly on the end of a later window
C12_Witness ==
    /\ op = "duty_cycle" /\ arg = pre.nexttimeAvail + pre.duration
    /\ pre.nexttimeAvail > 0 /\ ret = arg

\* duty_cycle moved to the next window
C12_WitnessAdvance ==
    /\ op = "duty_cycle" /\ self.nexttimeAvail > pre.nexttimeAvail
    /\ pre.nexttimeAvail > 0 /\ ret = self.nexttimeAvail

\* C13: audit trail. Every allocate_time call, accepted or rejected, hands
\* exactly one message to the logger; it carries currentTimeNorm as it is after
\* the call and the requested dt (both in days, to two decimals) and a tag:
\* 'ok' iff the call succeeded without a window advance, '+window' iff it
\* succeeded with one, '!too long' iff dt > duration, '!negative allocation' iff
\* dt < 0.
C13_AuditTrail ==
    Allocated =>
        /\ Len(log) = 1
        /\ log[1].time * day = 100 * self.currentTimeNorm
        /\ log[1].alloc * day = 100 * arg
        /\ log[1].description
             \in {"ok", "+window", "!too long", "!negative allocation"}
        /\ log[1].description = "ok"
             <=> (ret = TRUE /\ self.nexttimeAvail = pre.nexttimeAvail)
        /\ log[1].description = "+window"
             <=> (ret = TRUE /\ self.nexttimeAvail # pre.nexttimeAvail)
        /\ log[1].description = "!too long" <=> arg > pre.duration
        /\ log[1].description = "!negative allocation" <=> arg < 0

\* a rejected request logged after time had been allocated
C13_Witness ==
    /\ Allocated /\ ret = FALSE /\ Len(log) = 1
    /\ log[1].description = "!too long" /\ log[1].time > 0

\* a window advance logged
C13_WitnessWindow ==
    /\ Allocated /\ Len(log) = 1 /\ log[1].description = "+window"
    /\ log[1].time = 9400 /\ log[1].alloc = 1000

\* C14: the steps of nexttimeAvail. Every method call leaves nexttimeAvail as it
\* was or adds exactly duration/missionPortion to it; it is 0 after
\* construction, and always a non-negative whole multiple of
\* duration/missionPortion.
C14_WindowSteps ==
    Constructed =>
        /\ op = "__init__" => self.nexttimeAvail = 0
        /\ \/ self.nexttimeAvail = pre.nexttimeAvail
           \/ self.missionPortion[1] * (self.nexttimeAvail - pre.nexttimeAvail)
                = self.missionPortion[2] * self.duration
        /\ self.nexttimeAvail >= 0
        /\ (self.missionPortion[1] * self.nexttimeAvail)
             % (self.missionPortion[2] * self.duration) = 0

\* the second window advance of an instance with missionPortion = 1/2, made by
\* duty_cycle
C14_Witness ==
    /\ op = "duty_cycle" /\ self.missionPortion = <<1, 2>>
    /\ pre.nexttimeAvail = 28 * day /\ self.nexttimeAvail = 56 * day

\* C15: window containment. On an instance driven by allocate_time calls alone,
\* nexttimeAvail <= currentTimeNorm <= nexttimeAvail + duration in every state.
C15_WindowContainment ==
    Constructed =>
        /\ self.nexttimeAvail <= self.currentTimeNorm
        /\ self.currentTimeNorm <= self.nexttimeAvail + self.duration

\* a request of the whole window that moved to a later window and fills it
C15_Witness ==
    /\ Allocated /\ ret = TRUE /\ arg = self.duration
    /\ self.nexttimeAvail > pre.nexttimeAvail /\ pre.nexttimeAvail > 0
    /\ self.currentTimeNorm = self.nexttimeAvail + self.duration

\* the last call was a granted allocate_time of positive width
Granted == Allocated /\ ret = TRUE /\ arg > 0

\* C16 as claimed (for requests of positive width, the reading most favourable
\* to the claim): a window admits at most one granted allocation, so of two
\* granted allocate_time calls in a row the second advances the window.
C16_OneGrantPerWindow ==
    [][(Granted /\ Granted') => self'.nexttimeAvail # self.nexttimeAvail]_vars

\* C16 as amended: a window admits every granted allocation that fits in what is
\* left of it. Of two granted allocate_time calls in a row the second advances
\* the window exactly when currentTimeNorm + dt > nexttimeAvail + duration.
C16_GrantsWhileFitting ==
    [][(Granted /\ Granted') =>
          (self'.nexttimeAvail # self.nexttimeAvail
             <=> self.currentTimeNorm + arg' > self.nexttimeAvail + self.duration)]_vars

\* a second allocation granted in a window already allocated from
C16_Witness ==
    /\ Granted /\ self.nexttimeAvail = pre.nexttimeAvail
    /\ pre.currentTimeNorm > pre.nexttimeAvail
    /\ self.currentTimeNorm = self.nexttimeAvail + self.duration

\* C17: granted time is fully charged. On an instance driven by allocate_time
\* calls alone, a successful allocate_time(dt) adds at least dt to
\* currentTimeNorm: exactly dt without a window advance, and dt plus the gap
\* between the old currentTimeNorm and the new nexttimeAvail, which is not
\* negative, with one.
C17_FullyCharged ==
    (Allocated /\ ret = TRUE) =>
        /\ self.currentTimeNorm - pre.currentTimeNorm >= arg
        /\ self.nexttimeAvail = pre.nexttimeAvail
             => self.currentTimeNorm = pre.currentTimeNorm + arg
        /\ self.nexttimeAvail # pre.nexttimeAvail
             => /\ self.nexttimeAvail - pre.currentTimeNorm >= 0
                /\ self.currentTimeNorm
                     = pre.currentTimeNorm + arg
                         + (self.nexttimeAvail - pre.currentTimeNorm)

\* a window advance that skipped time between the old current time and the new
\* window
C17_Witness ==
    /\ Allocated /\ ret = TRUE /\ arg > 0
    /\ self.nexttimeAvail > pre.nexttimeAvail
    /\ self.nexttimeAvail > pre.currentTimeNorm /\ pre.currentTimeNorm > 0

\* C18: the mission eventually ends. If the scheduling loop keeps issuing
\* allocate_time requests with 0 < dt <= duration, mission_is_over becomes true
\* after finitely many calls; a request with dt = 0 is accepted and moves
\* neither currentTimeNorm nor mission_is_over.
C18_MissionEnds ==
    /\ Constructed ~> MissionOver
    /\ []((Allocated /\ arg = 0) =>
            /\ ret = TRUE
            /\ self.currentTimeNorm = pre.currentTimeNorm
            /\ mission_is_over(self) <=> mission_is_over(pre))

\* a mission with a lifetime ended by a request of positive width
C18_Witness ==
    /\ Granted /\ MissionOver /\ ~mission_is_over(pre)
    /\ self.missionFinishNorm > 0 /\ self.nexttimeAvail > 0

\* C19: shared rollover logic. From one state and for 0 <= dt <= duration,
\* allocate_time(dt) and duty_cycle(currentTimeNorm + dt) advance the window in
\* exactly the same cases and leave the same nexttimeAvail; when they advance
\* it, the value duty_cycle returns plus dt is the currentTimeNorm allocate_time
\* sets. Checked at every call of either method against the other method
\* applied to the state the call was made in.
C19_SharedRollover ==
    /\ (Allocated /\ LegalWidth) =>
         LET d == duty_cycle(pre, pre.currentTimeNorm + arg) IN
         /\ self.nexttimeAvail = d.self.nexttimeAvail
         /\ self.nexttimeAvail # pre.nexttimeAvail
              => d.nexttime + arg = self.currentTimeNorm
    /\ (/\ op = "duty_cycle"
        /\ 0 <= arg - pre.currentTimeNorm
        /\ arg - pre.currentTimeNorm <= pre.duration) =>
         LET dt == arg - pre.currentTimeNorm
             a == allocate_time(pre, dt) IN
         /\ a.success
         /\ self.nexttimeAvail = a.self.nexttimeAvail
         /\ a.window_advance <=> self.nexttimeAvail # pre.nexttimeAvail
         /\ a.window_advance => ret + dt = a.self.currentTimeNorm

\* duty_cycle advanced a later window for the end of a block of legal width
C19_Witness ==
    /\ op = "duty_cycle" /\ self.nexttimeAvail > pre.nexttimeAvail
    /\ pre.nexttimeAvail > 0 /\ pre.currentTimeNorm > pre.nexttimeAvail
    /\ arg > pre.currentTimeNorm /\ arg - pre.currentTimeNorm <= pre.duration

\* C20: duty_cycle never returns a time in the past. For every currenttime >= 0
\* the value it returns is at least currenttime.
C20_NotInThePast ==
    (op = "duty_cycle" /\ arg >= 0) => ret >= arg

====
